---- MODULE Spec2Model ----
(***************************************************************************)
(* State-machine model of the CDP wallet providers of agentkit:            *)
(*   - CdpEvmServerWalletProvider (cdp_evm_server_wallet_provider.py)      *)
(*   - CdpEvmSmartWalletProvider  (cdp_evm_smart_wallet_provider.py)       *)
(*   - CdpApiActionProvider       (cdp_api_action_provider.py)             *)
(* The CDP SDK client and the remote API are the environment: every remote *)
(* outcome is a nondeterministic input of the action that issues the call. *)
(* Python strings are TLA+ strings, None is NoneV, an f-string is the      *)
(* tuple of its parts.                                                     *)
(***************************************************************************)
EXTENDS Naturals, Sequences, FiniteSets, TLC

VARIABLES
    cfg,           \* the config object handed to __init__
    env,           \* the process environment read by os.getenv
    variant,       \* which class was instantiated: "server", "smart" or NoneV
    phase,         \* "Uninitialized", "Ready" (constructor returned), "Failed" (constructor raised)
    self,          \* the provider's attributes; NoneV while an attribute is unassigned
    ctor,          \* what the constructor did: error raised, remote requests, client closes
    last,          \* what the last interface call did
    ncalls,        \* number of interface calls made so far
    openSessions,  \* client sessions currently open
    userOps,       \* remote user operations, by hash (index): "pending" or "complete"
    lastSupports   \* argument and result of the last supports_network call

vars == <<cfg, env, variant, phase, self, ctor, last, ncalls, openSessions, userOps, lastSupports>>

----------------------------------------------------------------------------
(* Bounds *)

\* interface calls made on one provider instance
MaxCalls == 2

\* receipt polling, in ticks of one clock unit: the largest timeout a caller passes
MaxTimeout == 2

\* the most tasks still pending on the event loop when the coroutine of a call finishes
MaxTasks == 1

----------------------------------------------------------------------------
(* Python values *)

NoneV == "None"

\* truthiness of a str | None
Truthy(x) == x # NoneV /\ x # ""

\* Python `a or b`
Or(a, b) == IF Truthy(a) THEN a ELSE b

\* os.getenv(name) / os.getenv(name, default): env maps unset variables to NoneV
Getenv(e, name, default) == IF e[name] = NoneV THEN default ELSE e[name]

----------------------------------------------------------------------------
(* Network table: NETWORK_ID_TO_CHAIN of ..network *)

NETWORK_ID_TO_CHAIN ==
    [n \in {"base-sepolia", "ethereum-sepolia", "base-mainnet"} |->
        CASE n = "base-sepolia" -> "84532"
          [] n = "ethereum-sepolia" -> "11155111"
          [] n = "base-mainnet" -> "8453"]

Network(family, id, chain) ==
    [protocol_family |-> family, network_id |-> id, chain_id |-> chain]

----------------------------------------------------------------------------
(* The CDP client: one session per client object *)

\* CdpClient(...): a new client with its own session
GetClient == [open |-> TRUE, closeCalls |-> 0]

\* client.close() / client._session.close(): closing a closed session is a no-op on the
\* session, but it is one more close call
Close(c) == [open |-> FALSE, closeCalls |-> c.closeCalls + 1]

AsyncWithExitLeaks(c) == c

\* leaving `async with client as cdp:` (normally or by exception) closes the client
AsyncWithExit(c) == Close(c)

\* a remote request as the SDK receives it
Request(api, address, network, token, payload, extra) ==
    [api |-> api, address |-> address, network |-> network, token |-> token,
     payload |-> payload, extra |-> extra]

----------------------------------------------------------------------------
(* Construction inputs *)

ConfigCreds == {NoneV, "cfg-cred"}
EnvCreds == {NoneV, "env-cred"}
ConfigNetworkIds == {NoneV, "base-mainnet", "no-such-network"}
EnvNetworkIds == {NoneV, "ethereum-sepolia"}
ConfigAddresses == {NoneV, "0xFixed"}
IdempotencyKeys == {NoneV, "idem-1"}
PaymasterUrls == {NoneV, "https://paymaster"}

Configs ==
    [api_key_id : ConfigCreds, api_key_secret : ConfigCreds, wallet_secret : ConfigCreds,
     network_id : ConfigNetworkIds, address : ConfigAddresses,
     idempotency_key : IdempotencyKeys, paymaster_url : PaymasterUrls]

\* the process environment: the three CDP variables are exported together or not at all
Environments ==
    {e \in [CDP_API_KEY_ID : EnvCreds, CDP_API_KEY_SECRET : EnvCreds,
            CDP_WALLET_SECRET : EnvCreds, NETWORK_ID : EnvNetworkIds,
            IDEMPOTENCY_KEY : {NoneV}] :
        e.CDP_API_KEY_ID = e.CDP_API_KEY_SECRET /\ e.CDP_API_KEY_SECRET = e.CDP_WALLET_SECRET}

NoSelf ==
    [_api_key_id |-> NoneV, _api_key_secret |-> NoneV, _wallet_secret |-> NoneV,
     _paymaster_url |-> NoneV, _idempotency_key |-> NoneV,
     _network |-> Network(NoneV, NoneV, NoneV), _address |-> NoneV, _owner_account |-> NoneV]

NoCtor == [error |-> NoneV, cause |-> NoneV, requests |-> <<>>, closeCalls |-> 0]

NoCall ==
    [op |-> NoneV, args |-> <<>>, status |-> NoneV, error |-> NoneV, result |-> <<>>,
     requests |-> <<>>, clients |-> 0, closeCalls |-> 0, submitted |-> 0, waited |-> 0,
     signer |-> NoneV, spawned |-> 0, cancelled |-> 0, pending |-> 0,
     timeout |-> 0, poll_latency |-> 0, mined |-> FALSE, minedAt |-> 0, finished |-> 0,
     remote |-> NoneV]

NoSupports == [network |-> Network(NoneV, NoneV, NoneV), result |-> FALSE]

Init ==
    /\ cfg \in Configs
    /\ env \in Environments
    /\ variant = NoneV
    /\ phase = "Uninitialized"
    /\ self = NoSelf
    /\ ctor = NoCtor
    /\ last = NoCall
    /\ ncalls = 0
    /\ openSessions = 0
    /\ userOps = <<>>
    /\ lastSupports = NoSupports

----------------------------------------------------------------------------
(* Constructors *)

CredentialsMissingAll(s) ==
    ~Truthy(s._api_key_id) /\ ~Truthy(s._api_key_secret) /\ ~Truthy(s._wallet_secret)

\* `if not self._api_key_id or not self._api_key_secret or not self._wallet_secret`
CredentialsMissing(s) ==
    ~Truthy(s._api_key_id) \/ ~Truthy(s._api_key_secret) \/ ~Truthy(s._wallet_secret)

\* the three credential assignments at the head of both constructors
ReadCredentials(s, c, e) ==
    [s EXCEPT !._api_key_id = Or(c.api_key_id, e.CDP_API_KEY_ID),
              !._api_key_secret = Or(c.api_key_secret, e.CDP_API_KEY_SECRET),
              !._wallet_secret = Or(c.wallet_secret, e.CDP_WALLET_SECRET)]

\* network_id = config.network_id or os.getenv("NETWORK_ID", "base-sepolia")
ResolveNetworkId(c, e) == Or(c.network_id, Getenv(e, "NETWORK_ID", "base-sepolia"))

LookupChainWithFallback(network_id) ==
    [found |-> TRUE,
     id |-> NETWORK_ID_TO_CHAIN[IF network_id \in DOMAIN NETWORK_ID_TO_CHAIN
                                THEN network_id ELSE "base-sepolia"]]

\* chain = NETWORK_ID_TO_CHAIN[network_id]: the subscript raises KeyError for an id the
\* table does not hold
LookupChain(network_id) ==
    IF network_id \in DOMAIN NETWORK_ID_TO_CHAIN
    THEN [found |-> TRUE, id |-> NETWORK_ID_TO_CHAIN[network_id]]
    ELSE [found |-> FALSE, id |-> NoneV]

\* every exception of the constructor body is re-raised as ValueError
CtorRaise(cause, requests, closes) ==
    [error |-> "ValueError", cause |-> cause, requests |-> requests, closeCalls |-> closes]

CtorReturn(requests, closes) ==
    [error |-> NoneV, cause |-> NoneV, requests |-> requests, closeCalls |-> closes]

AddressResolutionAlwaysCreates(c, s) ==
    Request("evm.create_account", NoneV, NoneV, NoneV, <<>>, s._idempotency_key)

\* if config.address: _get_account(client, config.address) else: _create_account(client),
\* the latter with idempotency_key=self._idempotency_key
AddressResolution(c, s) ==
    IF Truthy(c.address)
    THEN Request("evm.get_account", c.address, NoneV, NoneV, <<>>, NoneV)
    ELSE Request("evm.create_account", NoneV, NoneV, NoneV, <<>>, s._idempotency_key)

\* CdpEvmServerWalletProvider.__init__; its config class has no paymaster_url field
ConstructServer ==
    /\ phase = "Uninitialized"
    /\ cfg.paymaster_url = NoneV
    /\ \E remote \in {"ok", "raise"} :
        LET s1 == ReadCredentials(self, cfg, env)
            network_id == ResolveNetworkId(cfg, env)
            s2 == [s1 EXCEPT !._idempotency_key = Or(cfg.idempotency_key, env.IDEMPOTENCY_KEY)]
            chain == LookupChain(network_id)
            s3 == [s2 EXCEPT !._network = Network("evm", network_id, chain.id)]
            client == AsyncWithExit(GetClient)
            req == AddressResolution(cfg, s3)
            account == IF Truthy(cfg.address) THEN cfg.address ELSE "0xCreated"
        IN  /\ variant' = "server"
            /\ IF CredentialsMissing(s1)
               THEN /\ self' = s1
                    /\ phase' = "Failed"
                    /\ ctor' = CtorRaise("missing credentials", <<>>, 0)
                    /\ openSessions' = openSessions
               ELSE IF ~chain.found
               THEN /\ self' = s2
                    /\ phase' = "Failed"
                    /\ ctor' = CtorRaise("KeyError", <<>>, 0)
                    /\ openSessions' = openSessions
               ELSE IF remote = "raise"
               THEN /\ self' = s3
                    /\ phase' = "Failed"
                    /\ ctor' = CtorRaise("remote error", <<req>>, client.closeCalls)
                    /\ openSessions' = openSessions + (IF client.open THEN 1 ELSE 0)
               ELSE /\ self' = [s3 EXCEPT !._address = account]
                    /\ phase' = "Ready"
                    /\ ctor' = CtorReturn(<<req>>, client.closeCalls)
                    /\ openSessions' = openSessions + (IF client.open THEN 1 ELSE 0)
    /\ UNCHANGED <<cfg, env, last, ncalls, userOps, lastSupports>>

\* CdpEvmSmartWalletProvider.__init__
ConstructSmart ==
    /\ phase = "Uninitialized"
    /\ \E remote \in {"ok", "raise create_account", "raise create_smart_account"} :
        LET s0 == ReadCredentials(self, cfg, env)
            s1 == [s0 EXCEPT !._paymaster_url = cfg.paymaster_url]
            network_id == ResolveNetworkId(cfg, env)
            s2 == [s1 EXCEPT !._idempotency_key = Or(cfg.idempotency_key, env.IDEMPOTENCY_KEY)]
            chain == LookupChain(network_id)
            s3 == [s2 EXCEPT !._network = Network("evm", network_id, chain.id)]
            \* `async with client as cdp:` in initialize_accounts, then `finally: client.close()`
            client == Close(AsyncWithExit(GetClient))
            createAccount ==
                Request("evm.create_account", NoneV, NoneV, NoneV, <<>>, s3._idempotency_key)
            createSmart ==
                Request("evm.create_smart_account", NoneV, NoneV, NoneV, <<"0xOwner">>, NoneV)
            leaked == IF client.open THEN 1 ELSE 0
        IN  /\ variant' = "smart"
            /\ IF CredentialsMissing(s1)
               THEN /\ self' = s1
                    /\ phase' = "Failed"
                    /\ ctor' = CtorRaise("missing credentials", <<>>, 0)
                    /\ openSessions' = openSessions
               ELSE IF ~chain.found
               THEN /\ self' = s2
                    /\ phase' = "Failed"
                    /\ ctor' = CtorRaise("KeyError", <<>>, 0)
                    /\ openSessions' = openSessions
               ELSE IF Truthy(cfg.address)
               THEN \* line 84 reads the local `account` before any assignment to it
                    /\ self' = s3
                    /\ phase' = "Failed"
                    /\ ctor' = CtorRaise("UnboundLocalError", <<>>, client.closeCalls)
                    /\ openSessions' = openSessions + leaked
               ELSE IF remote = "raise create_account"
               THEN /\ self' = s3
                    /\ phase' = "Failed"
                    /\ ctor' = CtorRaise("remote error", <<createAccount>>, client.closeCalls)
                    /\ openSessions' = openSessions + leaked
               ELSE IF remote = "raise create_smart_account"
               THEN /\ self' = s3
                    /\ phase' = "Failed"
                    /\ ctor' = CtorRaise("remote error", <<createAccount, createSmart>>,
                                         client.closeCalls)
                    /\ openSessions' = openSessions + leaked
               ELSE /\ self' = [s3 EXCEPT !._address = "0xSmart", !._owner_account = "0xOwner"]
                    /\ phase' = "Ready"
                    /\ ctor' = CtorReturn(<<createAccount, createSmart>>, client.closeCalls)
                    /\ openSessions' = openSessions + leaked
    /\ UNCHANGED <<cfg, env, last, ncalls, userOps, lastSupports>>

----------------------------------------------------------------------------
(* Server wallet: mutating calls *)

\* Web3.to_wei(value, "ether") on the amounts the model transfers
ToWei(value) ==
    CASE value = "0" -> "0"
      [] value = "1.5" -> "1500000000000000000"

\* what the remote side does with a request: it answers, or the SDK raises one of its
\* errors
RemoteOutcomes == {"ok", "ApiError", "ConnectionError"}

WithClientRetries(operation, outcome, sessionAttr) ==
    LET client == AsyncWithExit(GetClient)
    IN  [client |-> IF sessionAttr THEN Close(client) ELSE client,
         raised |-> outcome # "ok", error |-> IF outcome = "ok" THEN NoneV ELSE outcome,
         requests |-> IF outcome = "ok" THEN <<operation>> ELSE <<operation, operation>>,
         remote |-> outcome]

\* CdpEvmServerWalletProvider._with_client: `operation` is the one request the wrapped
\* coroutine issues, `outcome` what the remote side does with it, `sessionAttr` the value
\* of `hasattr(client, '_session') and client._session` when the code tests it
WithClient(operation, outcome, sessionAttr) ==
    LET client == GetClient
    IN  IF outcome = "ok"
        THEN \* explicit close inside the `async with` body, then the exit of the block
             LET c1 == IF sessionAttr THEN Close(client) ELSE client
             IN  [client |-> AsyncWithExit(c1), raised |-> FALSE, error |-> NoneV,
                  requests |-> <<operation>>, remote |-> outcome]
        ELSE \* the exception leaves the block first, then the except clause runs and
             \* re-raises the exception it caught (`raise e`)
             LET c1 == AsyncWithExit(client)
             IN  [client |-> IF sessionAttr THEN Close(c1) ELSE c1,
                  raised |-> TRUE, error |-> outcome, requests |-> <<operation>>,
                  remote |-> outcome]

RunAsyncNoCleanup(coroutine, tasks) ==
    coroutine @@ [spawned |-> tasks, cancelled |-> 0, pending |-> tasks]

\* CdpEvmServerWalletProvider._run_async, called from synchronous code: run the coroutine
\* to completion; finally cancel every task still pending on the loop and run the loop
\* until all of them are done. `coroutine` is what the coroutine returned or raised, which
\* _run_async passes on; `tasks` the tasks pending on the loop when it finished.
RunAsync(coroutine, tasks) ==
    coroutine @@ [spawned |-> tasks, cancelled |-> tasks, pending |-> 0]

\* the record of a call that went through _run_async(_with_client(...))
ClientCall(op, args, r, result) ==
    [NoCall EXCEPT !.op = op, !.args = args,
                   !.status = IF r.raised THEN "raised" ELSE "returned",
                   !.error = r.error,
                   !.result = IF r.raised THEN <<>> ELSE result,
                   !.requests = r.requests, !.clients = 1,
                   !.closeCalls = r.client.closeCalls,
                   !.remote = r.remote,
                   !.spawned = r.spawned, !.cancelled = r.cancelled,
                   !.pending = r.pending]

ServerMutatingCallDropsAddress(op, args, operation, result) ==
    /\ phase = "Ready"
    /\ variant = "server"
    /\ ncalls < MaxCalls
    /\ \E outcome \in RemoteOutcomes, sessionAttr \in BOOLEAN, tasks \in 0..MaxTasks :
        LET r == RunAsync(WithClient(operation, outcome, sessionAttr), tasks)
        IN  /\ last' = ClientCall(op, args, r, result)
            /\ openSessions' = openSessions + (IF r.client.open THEN 1 ELSE 0)
            /\ self' = [self EXCEPT !._address = IF r.raised THEN NoneV ELSE @]
    /\ ncalls' = ncalls + 1
    /\ UNCHANGED <<cfg, env, variant, phase, ctor, userOps, lastSupports>>

\* return self._run_async(self._with_client(operation)), common to the server wallet's
\* mutating methods
ServerMutatingCall(op, args, operation, result) ==
    /\ phase = "Ready"
    /\ variant = "server"
    /\ ncalls < MaxCalls
    /\ \E outcome \in RemoteOutcomes, sessionAttr \in BOOLEAN, tasks \in 0..MaxTasks :
        LET r == RunAsync(WithClient(operation, outcome, sessionAttr), tasks)
        IN  /\ last' = ClientCall(op, args, r, result)
            /\ openSessions' = openSessions + (IF r.client.open THEN 1 ELSE 0)
    /\ ncalls' = ncalls + 1
    /\ UNCHANGED <<cfg, env, variant, phase, self, ctor, userOps, lastSupports>>

\* CdpEvmServerWalletProvider.native_transfer
ServerNativeTransfer ==
    \E value \in {"0", "1.5"} :
        ServerMutatingCall("native_transfer", <<"0xTo", value>>,
            Request("evm.send_transaction", self._address, self._network.network_id, NoneV,
                    <<"0xTo", ToWei(value), NoneV>>, NoneV),
            <<"0xTxHash">>)

\* CdpEvmServerWalletProvider.send_transaction
ServerSendTransaction ==
    ServerMutatingCall("send_transaction", <<"0xTo", "0", "0x">>,
        Request("evm.send_transaction", self._address, self._network.network_id, NoneV,
                <<"0xTo", "0", "0x">>, NoneV),
        <<"0xTxHash">>)

\* CdpEvmServerWalletProvider.deploy_contract
ServerDeployContract ==
    ServerMutatingCall("deploy_contract", <<"0.8.0", "{}", "C">>,
        Request("evm.deploy_contract", NoneV, NoneV, NoneV, <<"0.8.0", "{}", "C">>, NoneV),
        <<"contract">>)

\* CdpEvmServerWalletProvider.deploy_nft
ServerDeployNft ==
    ServerMutatingCall("deploy_nft", <<"name", "SYM", "uri">>,
        Request("evm.deploy_nft", NoneV, NoneV, NoneV, <<"name", "SYM", "uri">>, NoneV),
        <<"nft">>)

\* CdpEvmServerWalletProvider.deploy_token
ServerDeployToken ==
    ServerMutatingCall("deploy_token", <<"name", "SYM", "1000">>,
        Request("evm.deploy_token", NoneV, NoneV, NoneV, <<"name", "SYM", "1000">>, NoneV),
        <<"token">>)

\* CdpEvmServerWalletProvider.trade
ServerTrade ==
    ServerMutatingCall("trade", <<"15", "eth", "usdc">>,
        Request("evm.trade", NoneV, NoneV, NoneV, <<"15", "eth", "usdc">>, NoneV),
        <<"Traded ", "15", " of ", "eth", " for ", "to_amount", " of ", "usdc", ".", "\n",
          "Transaction hash for the trade: ", "0xTradeHash", "\n",
          "Transaction link for the trade: ", "link">>)

ServerOps ==
    {"native_transfer", "send_transaction", "deploy_contract", "deploy_nft", "deploy_token",
     "trade"}

----------------------------------------------------------------------------
(* Smart wallet: mutating calls *)

\* transaction_hash of the completed user operation with hash h
TransactionHash(h) == <<"0xUserOpTx", ToString(h)>>

\* cdp.evm.wait_for_user_operation(user_op_hash = h): returns once the remote side reports
\* operation h complete, or raises and leaves it as it was
WaitForUserOperation(ops, h, outcome) ==
    IF outcome = "complete"
    THEN [ops |-> [ops EXCEPT ![h] = "complete"], raised |-> FALSE,
          transaction_hash |-> TransactionHash(h)]
    ELSE [ops |-> ops, raised |-> TRUE, transaction_hash |-> <<>>]

SubmitRequestNoPaymaster(s, calls) ==
    Request("evm.send_user_operation", s._address, s._network.network_id, NoneV, calls, NoneV)

\* cdp.evm.send_user_operation(smart_account=self._address,
\*     network=self._network.network_id, calls=[...], paymaster_url=self._paymaster_url)
SubmitRequest(s, calls) ==
    Request("evm.send_user_operation", s._address, s._network.network_id, NoneV, calls,
            s._paymaster_url)

SendUserOperationNoWait(ops, s, calls, outcome) ==
    LET h == Len(ops) + 1
        submit == SubmitRequest(s, calls)
    IN  IF outcome = "raise submit"
        THEN [ops |-> ops, requests |-> <<submit>>, raised |-> TRUE, result |-> <<>>,
              submitted |-> 0, waited |-> 0]
        ELSE [ops |-> Append(ops, "pending"), requests |-> <<submit>>, raised |-> FALSE,
              result |-> TransactionHash(h), submitted |-> h, waited |-> 0]

\* the nested coroutine _send_user_operation of native_transfer, send_transaction and
\* send_user_operation: submit, then wait for the hash the submission returned
SendUserOperation(ops, s, calls, outcome) ==
    LET h == Len(ops) + 1
        submit == SubmitRequest(s, calls)
    IN  IF outcome = "raise submit"
        THEN [ops |-> ops, requests |-> <<submit>>, raised |-> TRUE, result |-> <<>>,
              submitted |-> 0, waited |-> 0]
        ELSE LET user_operation == [user_op_hash |-> h]
                 w == WaitForUserOperation(Append(ops, "pending"),
                                           user_operation.user_op_hash, outcome)
                 wait == Request("evm.wait_for_user_operation", s._address, NoneV, NoneV,
                                 <<ToString(user_operation.user_op_hash)>>, NoneV)
             IN  [ops |-> w.ops, requests |-> <<submit, wait>>, raised |-> w.raised,
                  result |-> w.transaction_hash, submitted |-> h,
                  waited |-> user_operation.user_op_hash]

\* client = self.get_client(); try: return self._run_async(_send_user_operation())
\* .transaction_hash; finally: self._run_async(client.close())
SmartMutatingCall(op, args, calls) ==
    /\ phase = "Ready"
    /\ variant = "smart"
    /\ ncalls < MaxCalls
    /\ \E outcome \in {"complete", "raise submit", "raise wait"} :
        LET f == SendUserOperation(userOps, self, calls, outcome)
            client == Close(AsyncWithExit(GetClient))
        IN  /\ last' = [NoCall EXCEPT
                            !.op = op, !.args = args,
                            !.status = IF f.raised THEN "raised" ELSE "returned",
                            !.error = IF f.raised THEN "RemoteError" ELSE NoneV,
                            !.result = f.result, !.requests = f.requests, !.clients = 1,
                            !.closeCalls = client.closeCalls,
                            !.submitted = f.submitted, !.waited = f.waited]
            /\ userOps' = f.ops
            /\ openSessions' = openSessions + (IF client.open THEN 1 ELSE 0)
    /\ ncalls' = ncalls + 1
    /\ UNCHANGED <<cfg, env, variant, phase, self, ctor, lastSupports>>

\* CdpEvmSmartWalletProvider.native_transfer
SmartNativeTransfer ==
    \E value \in {"0", "1.5"} :
        SmartMutatingCall("native_transfer", <<"0xTo", value>>,
                          <<"0xTo", ToWei(value), "0x">>)

\* CdpEvmSmartWalletProvider.send_transaction
SmartSendTransaction ==
    SmartMutatingCall("send_transaction", <<"0xTo", "0", "0x">>, <<"0xTo", "0", "0x">>)

\* CdpEvmSmartWalletProvider.send_user_operation
SmartSendUserOperation ==
    SmartMutatingCall("send_user_operation", <<"0xA", "0", "0x01", "0xB", "0", "0x02">>,
                      <<"0xA", "0", "0x01", "0xB", "0", "0x02">>)

SmartOps == {"native_transfer", "send_transaction", "send_user_operation"}

----------------------------------------------------------------------------
(* Both wallets: calls that go to the provider's own state or to the chain RPC *)

\* get_address
GetAddress(s) == s._address

\* get_network
GetNetwork(s) == s._network

\* a call that creates no CDP client: it leaves everything but the call record alone
LocalCall(rec) ==
    /\ phase = "Ready"
    /\ ncalls < MaxCalls
    /\ last' = rec
    /\ ncalls' = ncalls + 1
    /\ UNCHANGED <<cfg, env, variant, phase, self, ctor, openSessions, userOps, lastSupports>>

\* a call record of a local call that returned `result`
Returned(op, args, result) ==
    [NoCall EXCEPT !.op = op, !.args = args, !.status = "returned", !.result = result]

\* a call record of a local call that raised `error`
Raised(op, args, error) ==
    [NoCall EXCEPT !.op = op, !.args = args, !.status = "raised", !.error = error]

\* get_address(), either wallet
GetAddressCall == LocalCall(Returned("get_address", <<>>, <<GetAddress(self)>>))

\* get_network(), either wallet
GetNetworkCall ==
    LocalCall(Returned("get_network", <<>>,
                       <<GetNetwork(self).protocol_family, GetNetwork(self).network_id,
                         GetNetwork(self).chain_id>>))

\* get_balance(), either wallet: one eth_getBalance for get_address() on the RPC endpoint
GetBalanceCall ==
    \E rpc \in {"ok", "raise"} :
        LET req == Request("web3.eth.get_balance", GetAddress(self), NoneV, NoneV, <<>>, NoneV)
        IN  LocalCall([(IF rpc = "ok" THEN Returned("get_balance", <<>>, <<"Decimal(balance)">>)
                        ELSE Raised("get_balance", <<>>, "RpcError"))
                       EXCEPT !.requests = <<req>>])

\* read_contract(...), either wallet: one eth_call on the RPC endpoint
ReadContractCall ==
    \E rpc \in {"ok", "raise"} :
        LET args == <<"0xContract", "abi", "balanceOf", "latest">>
            req == Request("web3.eth.call", "0xContract", NoneV, NoneV, args, NoneV)
        IN  LocalCall([(IF rpc = "ok" THEN Returned("read_contract", args, <<"value">>)
                        ELSE Raised("read_contract", args, "RpcError"))
                       EXCEPT !.requests = <<req>>])

----------------------------------------------------------------------------
(* Both wallets: wait_for_transaction_receipt *)

\* the chain as the RPC node shows it: whether and when the transaction is mined, and
\* whether the node answers
Chains ==
    [mined : {TRUE}, minedAt : 0..(MaxTimeout + 1), rpc : {"ok"}]
        \cup [mined : {FALSE}, minedAt : {0}, rpc : {"ok", "raise"}]

\* web3's eth.wait_for_transaction_receipt, from tick t on: ask for the receipt, return it
\* when there is one, otherwise sleep poll_latency and give up with TimeExhausted when the
\* clock is then past the timeout
RECURSIVE Web3Poll(_, _, _, _, _)
Web3Poll(t, tx_hash, timeout, poll_latency, chain) ==
    IF chain.rpc = "raise"
    THEN [status |-> "raised", error |-> "RpcError", result |-> <<>>, finished |-> t]
    ELSE IF chain.mined /\ chain.minedAt <= t
    THEN [status |-> "returned", error |-> NoneV, result |-> <<"receipt", tx_hash>>,
          finished |-> t]
    ELSE IF t + poll_latency > timeout
    THEN [status |-> "raised", error |-> "TimeExhausted", result |-> <<>>,
          finished |-> t + poll_latency]
    ELSE Web3Poll(t + poll_latency, tx_hash, timeout, poll_latency, chain)

WaitForTransactionReceiptSwapped(tx_hash, timeout, poll_latency, chain) ==
    Web3Poll(0, tx_hash, poll_latency, timeout, chain)

\* return self._web3.eth.wait_for_transaction_receipt(
\*     tx_hash, timeout=timeout, poll_latency=poll_latency)
WaitForTransactionReceipt(tx_hash, timeout, poll_latency, chain) ==
    Web3Poll(0, tx_hash, timeout, poll_latency, chain)

\* the poll latencies a caller passes, in ticks
PollLatencies == {1, 2}

WaitForTransactionReceiptCall ==
    \E timeout \in 1..MaxTimeout, poll_latency \in PollLatencies, chain \in Chains :
        LET r == WaitForTransactionReceipt("0xTx", timeout, poll_latency, chain)
        IN  LocalCall([NoCall EXCEPT !.op = "wait_for_transaction_receipt",
                                     !.args = <<"0xTx">>,
                                     !.status = r.status,
                                     !.error = r.error,
                                     !.result = r.result,
                                     !.timeout = timeout,
                                     !.poll_latency = poll_latency,
                                     !.mined = chain.mined,
                                     !.minedAt = chain.minedAt,
                                     !.finished = r.finished])

----------------------------------------------------------------------------
(* Both wallets: signing *)

\* the names bound at module level in the two wallet provider modules (their import
\* statements); the smart wallet module adds EncodedCall and List
ModuleNames ==
    {"json", "os", "asyncio", "Decimal", "Any", "List", "CdpClient", "EncodedCall",
     "TransactionRequestEIP1559", "DynamicFeeTransaction", "BaseModel", "Field", "Web3",
     "BlockIdentifier", "ChecksumAddress", "HexStr", "TxParams", "__version__",
     "NETWORK_ID_TO_CHAIN", "Network", "EvmGasConfig", "EvmWalletProvider"}

SignerSmartAddress(v, s) == GetAddress(s)

\* the second argument of self._web3.eth.account.sign_message(...):
\* self.get_address() in the server wallet, self._owner_account.address in the smart wallet
Signer(v, s) == IF v = "server" THEN GetAddress(s) ELSE s._owner_account

\* sign_message / sign_typed_data / sign_transaction: the digest function is looked up
\* first (NameError when the module does not bind it), then eth_account signs; what
\* eth_account answers for its arguments is the library's, an input here
SignCall(op, args, digestFn) ==
    \E library \in {"ok", "raise"} :
        LocalCall(IF digestFn \notin ModuleNames
                  THEN Raised(op, args, "NameError")
                  ELSE IF library = "raise"
                  THEN [Raised(op, args, "SigningError") EXCEPT
                            !.signer = Signer(variant, self)]
                  ELSE [Returned(op, args, <<"0xSignature">>) EXCEPT
                            !.signer = Signer(variant, self)])

SignMessageCall == SignCall("sign_message", <<"message">>, "hash_message")

SignTypedDataCall == SignCall("sign_typed_data", <<"typed_data">>, "hash_typed_data_message")

SignTransactionCall == SignCall("sign_transaction", <<"transaction">>, "DynamicFeeTransaction")

----------------------------------------------------------------------------
(* CdpApiActionProvider *)

\* asset_id as RequestFaucetFundsSchema hands it over: an optional string
AssetIds == {NoneV, "eth", "usdc", "sol", "doge"}

EvmNetworkRejection ==
    <<"Error: Faucet is only supported on 'base-sepolia' or 'ethereum-sepolia' evm networks.">>

SvmNetworkRejection ==
    <<"Error: Faucet is only supported on 'solana-devnet' solana networks.">>

FamilyRejection ==
    <<"Error: Faucet is only supported on Ethereum and Solana protocol families.">>

FaucetRejectionAnyEvm(network) ==
    IF network.protocol_family = "evm"
    THEN <<>>
    ELSE IF network.protocol_family = "svm"
    THEN IF network.network_id # "solana-devnet" THEN SvmNetworkRejection ELSE <<>>
    ELSE FamilyRejection

\* the three early returns of request_faucet_funds; <<>> when the request goes ahead
FaucetRejection(network) ==
    IF network.protocol_family = "evm"
    THEN IF network.network_id \notin {"base-sepolia", "ethereum-sepolia"}
         THEN EvmNetworkRejection ELSE <<>>
    ELSE IF network.protocol_family = "svm"
    THEN IF network.network_id # "solana-devnet" THEN SvmNetworkRejection ELSE <<>>
    ELSE FamilyRejection

FaucetTokenDefaultUsdc(network, asset_id) == Or(asset_id, "usdc")

\* token = validated_args.asset_id or "eth" / or "sol"
FaucetToken(network, asset_id) ==
    IF network.protocol_family = "evm" THEN Or(asset_id, "eth") ELSE Or(asset_id, "sol")

\* the request the nested coroutine _request_faucet issues
FaucetRequest(network, address, asset_id) ==
    IF network.protocol_family = "evm"
    THEN Request("evm.request_faucet", address, network.network_id,
                 FaucetToken(network, asset_id), <<>>, NoneV)
    ELSE Request("solana.request_faucet", address, NoneV,
                 FaucetToken(network, asset_id), <<>>, NoneV)

\* the f-strings returned after a faucet request that succeeded
FaucetMessage(network, asset_id, reply) ==
    IF network.protocol_family = "evm"
    THEN <<"Received ", Or(asset_id, "ETH"), " from the faucet. Transaction hash: ", reply>>
    ELSE <<"Received ", Or(asset_id, "SOL"),
           " from the faucet. Transaction signature hash: ", reply>>

\* CdpApiActionProvider.request_faucet_funds on a wallet provider that has _run_async and
\* _with_client
RequestFaucetFunds ==
    /\ phase = "Ready"
    /\ variant = "server"
    /\ ncalls < MaxCalls
    /\ \E asset_id \in AssetIds, outcome \in RemoteOutcomes, sessionAttr \in BOOLEAN,
          tasks \in 0..MaxTasks :
        LET network == self._network
            rejection == FaucetRejection(network)
            r == RunAsync(WithClient(FaucetRequest(network, self._address, asset_id),
                                     outcome, sessionAttr), tasks)
        IN  IF rejection # <<>>
            THEN /\ last' = [NoCall EXCEPT !.op = "request_faucet_funds",
                                           !.args = <<asset_id>>,
                                           !.status = "returned",
                                           !.result = rejection]
                 /\ openSessions' = openSessions
            ELSE /\ last' = ClientCall("request_faucet_funds", <<asset_id>>, r,
                                       FaucetMessage(network, asset_id, "0xFaucetTx"))
                 /\ openSessions' = openSessions + (IF r.client.open THEN 1 ELSE 0)
    /\ ncalls' = ncalls + 1
    /\ UNCHANGED <<cfg, env, variant, phase, self, ctor, userOps, lastSupports>>

SupportsNetworkBaseOnly(network) ==
    IF network.protocol_family = "evm"
    THEN network.network_id = "base-sepolia"
    ELSE IF network.protocol_family = "svm"
    THEN network.network_id = "solana-devnet"
    ELSE FALSE

\* CdpApiActionProvider.supports_network
SupportsNetwork(network) ==
    IF network.protocol_family = "evm"
    THEN network.network_id \in {"base-sepolia", "ethereum-sepolia"}
    ELSE IF network.protocol_family = "svm"
    THEN network.network_id = "solana-devnet"
    ELSE FALSE

\* the networks a wallet provider handed to the action provider may report
FaucetNetworks ==
    {Network(f, id, NoneV) :
        f \in {"evm", "svm", "bitcoin"},
        id \in {"base-sepolia", "ethereum-sepolia", "solana-devnet", "polygon",
                "solana-mainnet"}}

\* a call of supports_network(network)
SupportsNetworkCall ==
    /\ \E network \in FaucetNetworks :
        lastSupports' = [network |-> network, result |-> SupportsNetwork(network)]
    /\ UNCHANGED <<cfg, env, variant, phase, self, ctor, last, ncalls, openSessions, userOps>>

----------------------------------------------------------------------------
(* Specifications *)

Next ==
    \/ ConstructServer
    \/ ConstructSmart
    \/ ServerNativeTransfer
    \/ ServerSendTransaction
    \/ ServerDeployContract
    \/ ServerDeployNft
    \/ ServerDeployToken
    \/ ServerTrade
    \/ RequestFaucetFunds
    \/ SmartNativeTransfer
    \/ SmartSendTransaction
    \/ SmartSendUserOperation
    \/ GetAddressCall
    \/ GetNetworkCall
    \/ GetBalanceCall
    \/ ReadContractCall
    \/ WaitForTransactionReceiptCall
    \/ SignMessageCall
    \/ SignTypedDataCall
    \/ SignTransactionCall

\* the two wallet providers, from construction on
Spec == Init /\ [][Next]_vars

\* The action provider on its own: the wallet provider it is handed is Ready, has
\* _run_async and _with_client, and reports any network of FaucetNetworks.
FaucetInit ==
    /\ cfg = [api_key_id |-> "cfg-cred", api_key_secret |-> "cfg-cred",
              wallet_secret |-> "cfg-cred", network_id |-> NoneV, address |-> NoneV,
              idempotency_key |-> NoneV, paymaster_url |-> NoneV]
    /\ env = [CDP_API_KEY_ID |-> NoneV, CDP_API_KEY_SECRET |-> NoneV,
              CDP_WALLET_SECRET |-> NoneV, NETWORK_ID |-> NoneV, IDEMPOTENCY_KEY |-> NoneV]
    /\ variant = "server"
    /\ phase = "Ready"
    /\ self \in {[ReadCredentials(NoSelf, cfg, env) EXCEPT !._network = n,
                                                          !._address = "0xWallet"] :
                    n \in FaucetNetworks}
    /\ ctor = NoCtor
    /\ last = NoCall
    /\ ncalls = 0
    /\ openSessions = 0
    /\ userOps = <<>>
    /\ lastSupports = NoSupports

FaucetNext ==
    \/ RequestFaucetFunds
    \/ SupportsNetworkCall

FaucetSpec == FaucetInit /\ [][FaucetNext]_vars
----------------------------------------------------------------------------
(* Properties *)

MutatingOps == ServerOps \cup SmartOps \cup {"request_faucet_funds"}

\* C1: after a mutating call that created a client, the close calls made on that client's
\* session number exactly one, whether the call returned or raised.
C1_SessionClosedExactlyOnce ==
    (last.op \in MutatingOps /\ last.clients = 1) => last.closeCalls = 1

\* C2: between calls no client session is open: every session a call (or the constructor)
\* opened is closed again when it returns or raises.
C2_NoOpenSessionBetweenCalls == openSessions = 0

C2_Witness ==
    /\ ncalls >= 2
    /\ variant = "server"
    /\ last.status = "raised"
    /\ last.clients = 1
    /\ last.closeCalls = 1
    /\ openSessions = 0

CredentialAbsent(c, e) ==
    \/ ~Truthy(c.api_key_id) /\ ~Truthy(e.CDP_API_KEY_ID)
    \/ ~Truthy(c.api_key_secret) /\ ~Truthy(e.CDP_API_KEY_SECRET)
    \/ ~Truthy(c.wallet_secret) /\ ~Truthy(e.CDP_WALLET_SECRET)

\* C3: for both variants, when one of the three credentials is absent from the config and
\* from the environment, construction raises, and neither the network nor the address is
\* assigned and no remote request was issued.
C3_MissingCredentialFailsEarly ==
    (phase # "Uninitialized" /\ CredentialAbsent(cfg, env)) =>
        /\ phase = "Failed"
        /\ ctor.error = "ValueError"
        /\ self._network = Network(NoneV, NoneV, NoneV)
        /\ self._address = NoneV
        /\ ctor.requests = <<>>

\* only the wallet secret is absent; the key id comes from the environment
C3_Witness ==
    /\ phase = "Failed"
    /\ variant = "smart"
    /\ ~Truthy(cfg.wallet_secret) /\ ~Truthy(env.CDP_WALLET_SECRET)
    /\ self._api_key_id = "cfg-cred"
    /\ self._api_key_secret = "cfg-cred"
    /\ ctor.cause = "missing credentials"

\* C4: a smart-wallet mutating call returns a transaction identifier only when the user
\* operation this call submitted is complete, the wait was issued for the hash of that
\* submission, and a call that raised returned no identifier.
C4_IdentifierOnlyAfterCompletion ==
    (variant = "smart" /\ last.op \in SmartOps) =>
        /\ last.status = "returned" =>
            /\ last.submitted = Len(userOps)
            /\ last.waited = last.submitted
            /\ Len(last.requests) = 2
            /\ last.requests[2].api = "evm.wait_for_user_operation"
            /\ last.requests[2].payload = <<ToString(last.submitted)>>
            /\ userOps[last.submitted] = "complete"
            /\ last.result = TransactionHash(last.submitted)
        /\ last.status = "raised" => last.result = <<>>

\* the first call's operation is still pending, the second call's has completed
C4_Witness ==
    /\ variant = "smart"
    /\ ncalls = 2
    /\ last.status = "returned"
    /\ userOps = <<"pending", "complete">>
    /\ last.result = TransactionHash(2)

\* C5: smart-wallet construction with valid credentials, a known network and a remote side
\* that answers reaches Ready with the owner account and the smart-account address
\* retained, with and without a configured address.
C5_SmartConstructionRetainsBothIdentities ==
    (variant = "smart" /\ phase # "Uninitialized"
        /\ ctor.cause \notin {"missing credentials", "KeyError", "remote error"}) =>
        /\ phase = "Ready"
        /\ self._address # NoneV
        /\ self._owner_account # NoneV

\* C6: request_faucet_funds never raises.
C6_FaucetNeverRaises == last.op = "request_faucet_funds" => last.status = "returned"

SupportedPairs ==
    {<<"evm", "base-sepolia">>, <<"evm", "ethereum-sepolia">>, <<"svm", "solana-devnet">>}

Whitelisted(network) == <<network.protocol_family, network.network_id>> \in SupportedPairs

\* C7: on a network outside the whitelist request_faucet_funds returns the rejection
\* string of the network's family, creates no client and issues no request.
C7_UnsupportedNetworkRejected ==
    (last.op = "request_faucet_funds" /\ ~Whitelisted(self._network)) =>
        /\ last.status = "returned"
        /\ last.result =
            (IF self._network.protocol_family = "evm" THEN EvmNetworkRejection
             ELSE IF self._network.protocol_family = "svm" THEN SvmNetworkRejection
             ELSE FamilyRejection)
        /\ last.clients = 0
        /\ last.requests = <<>>

C7_Witness ==
    /\ last.op = "request_faucet_funds"
    /\ self._network.protocol_family = "evm"
    /\ self._network.network_id = "polygon"
    /\ last.result = EvmNetworkRejection
    /\ last.requests = <<>>

FamilyAssets(network) ==
    IF network.protocol_family = "evm" THEN {"eth", "usdc", "eurc", "cbbtc"}
    ELSE {"sol", "usdc"}

\* C8: on a whitelisted network, an asset id outside the family's asset whitelist is
\* answered with a rejection string and no faucet request is issued.
C8_UnsupportedAssetRejected ==
    (last.op = "request_faucet_funds" /\ Whitelisted(self._network)
        /\ last.args[1] \notin FamilyAssets(self._network) \cup {NoneV}) =>
        /\ last.status = "returned"
        /\ last.requests = <<>>
        /\ last.result[1] # "Received "

\* C9: on a whitelisted evm network with no asset id, exactly one faucet request is issued,
\* for token "eth", the wallet's address and that network; when it succeeds the result
\* reads "Received ETH from the faucet. Transaction hash: " followed by the faucet's hash.
C9_DefaultAssetIsEth ==
    (last.op = "request_faucet_funds" /\ Whitelisted(self._network)
        /\ self._network.protocol_family = "evm" /\ last.args = <<NoneV>>) =>
        /\ last.requests = <<Request("evm.request_faucet", self._address,
                                     self._network.network_id, "eth", <<>>, NoneV)>>
        /\ last.status = "returned" =>
            last.result = <<"Received ", "ETH", " from the faucet. Transaction hash: ",
                            "0xFaucetTx">>

C9_Witness ==
    /\ last.op = "request_faucet_funds"
    /\ self._network.network_id = "base-sepolia"
    /\ self._network.protocol_family = "evm"
    /\ last.args = <<NoneV>>
    /\ last.status = "returned"
    /\ last.result[2] = "ETH"

NetworkRejections == {EvmNetworkRejection, SvmNetworkRejection, FamilyRejection}

C11_IdentityStableAfterConstruction ==
    /\ [][phase = "Ready" =>
            /\ GetAddress(self') = GetAddress(self)
            /\ GetNetwork(self') = GetNetwork(self)
            /\ self'._api_key_id = self._api_key_id
            /\ self'._api_key_secret = self._api_key_secret
            /\ self'._wallet_secret = self._wallet_secret]_vars
    /\ [](last.op = "get_address" => last.result = <<self._address>>)
    /\ [](last.op = "get_network" => last.result[2] = self._network.network_id)

\* a second call has just failed and the address and network are the constructed ones
C11_Witness ==
    /\ ncalls >= 2
    /\ last.op \in MutatingOps
    /\ last.status = "raised"
    /\ GetAddress(self) = "0xFixed"
    /\ GetNetwork(self).network_id = "ethereum-sepolia"
AddressResolutionApis == {"evm.get_account", "evm.create_account"}

\* C12: a server-wallet construction that gets as far as resolving its address issues exactly
\* one address-resolution request, get_account with the configured address when one is
\* configured and otherwise create_account with the idempotency key, and no later call
\* issues an address-resolution request.
C12_OneAddressResolution ==
    (variant = "server" /\ phase \in {"Ready", "Failed"}
        /\ ctor.cause \notin {"missing credentials", "KeyError"}) =>
        /\ Len(ctor.requests) = 1
        /\ IF cfg.address # NoneV
           THEN /\ ctor.requests[1].api = "evm.get_account"
                /\ ctor.requests[1].address = cfg.address
           ELSE /\ ctor.requests[1].api = "evm.create_account"
                /\ ctor.requests[1].extra = Or(cfg.idempotency_key, env.IDEMPOTENCY_KEY)
        /\ \A i \in 1..Len(last.requests) : last.requests[i].api \notin AddressResolutionApis

\* a server wallet built from a fixed address has made two remote calls since
C12_Witness ==
    /\ variant = "server"
    /\ phase = "Ready"
    /\ cfg.address = "0xFixed"
    /\ ctor.requests[1].api = "evm.get_account"
    /\ ncalls = 2
    /\ Len(last.requests) = 1
SignOps == {"sign_message", "sign_typed_data", "sign_transaction"}

\* C13: a signing call on a Ready provider returns a signature, issues no remote request,
\* creates no client and submits no user operation.
C13_SigningReturnsSignature ==
    last.op \in SignOps =>
        /\ last.status = "returned"
        /\ last.result # <<>>
        /\ last.requests = <<>>
        /\ last.clients = 0
        /\ last.submitted = 0

\* C14: a signing call of the smart wallet never hands the smart-account address to the
\* signing library; the signer identity it hands over, and with which every signature it
\* returns was made, is the owner account retained at construction.
C14_SmartSignerIsOwner ==
    (variant = "smart" /\ last.op \in SignOps) =>
        /\ last.signer # GetAddress(self)
        /\ last.signer \in {NoneV, self._owner_account}
        /\ last.status = "returned" => last.signer = self._owner_account

\* a smart wallet has returned a signature made with the owner account
C14_Witness ==
    /\ variant = "smart"
    /\ last.op = "sign_transaction"
    /\ last.status = "returned"
    /\ last.signer = "0xOwner"
    /\ GetAddress(self) = "0xSmart"
\* some poll up to the deadline finds the receipt
ReceiptObservedInTime(c) ==
    \E t \in 0..c.timeout : t % c.poll_latency = 0 /\ c.mined /\ c.minedAt <= t

C15_WitnessTimeout ==
    /\ last.op = "wait_for_transaction_receipt"
    /\ last.error = "TimeExhausted"
    /\ last.mined
\* C16: for both variants, construction with all credentials present and a network id the
\* network table does not hold raises, with no remote request issued and neither the
\* network nor the address assigned.
C16_UnknownNetworkFailsEarly ==
    (/\ phase # "Uninitialized"
     /\ ~CredentialAbsent(cfg, env)
     /\ ResolveNetworkId(cfg, env) \notin DOMAIN NETWORK_ID_TO_CHAIN) =>
        /\ phase = "Failed"
        /\ ctor.error = "ValueError"
        /\ ctor.requests = <<>>
        /\ ctor.closeCalls = 0
        /\ self._network = Network(NoneV, NoneV, NoneV)
        /\ self._address = NoneV

\* a smart wallet configured with an unknown network id, the environment naming a known one
C16_Witness ==
    /\ variant = "smart"
    /\ phase = "Failed"
    /\ cfg.network_id = "no-such-network"
    /\ env.NETWORK_ID = "ethereum-sepolia"
    /\ ctor.cause = "KeyError"
\* C17: every user-operation submission of a smart-wallet call carries the paymaster URL of
\* the configuration the wallet was constructed with (None when none was configured), and
\* no other request of the call carries one.
C17_PaymasterForwarded ==
    (variant = "smart" /\ last.op \in SmartOps) =>
        /\ Len(last.requests) >= 1
        /\ \A i \in 1..Len(last.requests) :
            IF last.requests[i].api = "evm.send_user_operation"
            THEN last.requests[i].extra = cfg.paymaster_url
            ELSE last.requests[i].extra = NoneV
        /\ last.requests[1].api = "evm.send_user_operation"

\* the second submission of a wallet configured with a paymaster URL
C17_Witness ==
    /\ variant = "smart"
    /\ cfg.paymaster_url = "https://paymaster"
    /\ ncalls = 2
    /\ last.op = "send_user_operation"
    /\ last.requests[1].extra = "https://paymaster"
C19_OneRequestNoRetryNoTranslation ==
    (variant = "server" /\ last.op \in ServerOps) =>
        /\ last.clients = 1
        /\ Len(last.requests) = 1
        /\ last.status = "raised" <=> last.remote # "ok"
        /\ last.status = "raised" => last.error = last.remote
        /\ last.status = "returned" => last.error = NoneV /\ last.result # <<>>

\* a native transfer whose one request failed with a connection error
C19_Witness ==
    /\ variant = "server"
    /\ last.op = "native_transfer"
    /\ last.remote = "ConnectionError"
    /\ last.status = "raised"
    /\ last.error = "ConnectionError"
    /\ Len(last.requests) = 1
====
